---- MODULE Spec2Model ----
(***************************************************************************)
(* A model of two fragments of Chainer:                                    *)
(*   - chainer/functions/math/stft.py: the STFT function node;             *)
(*   - tests/chainer_tests/distributions_tests/test_kldivergence.py: the   *)
(*     TestKLDivergence test case and its helpers.                         *)
(*                                                                         *)
(* Three specifications share the module's variables:                      *)
(*   SpecSTFT     the life of one STFT node;                               *)
(*   SpecHelpers  direct calls of encode_params, make_normal_dist and      *)
(*                make_uniform_dist with arbitrary arguments;              *)
(*   SpecTests    the test methods of one parameterized TestKLDivergence.  *)
(***************************************************************************)
EXTENDS Integers, Sequences, FiniteSets, TLC

VARIABLES
    node,       \* the STFT node: [kind |-> "none"] before construction
    ctorArgs,   \* the arguments the STFT node was constructed with
    last,       \* the last operation on the STFT node and how it ended
    prevNode,   \* the STFT node as it was before the last operation
    shape,      \* TestKLDivergence.shape (parameterized)
    is_variable,\* TestKLDivergence.is_variable (parameterized)
    call,       \* SpecHelpers: the helper call made last and its arguments
    ret,        \* SpecHelpers: what that call returned
    test,       \* SpecTests: the running test method and its position
    dist1,      \* SpecTests: the local dist1 of the running test method
    dist2,      \* SpecTests: the local dist2 of the running test method
    serial,     \* SpecTests: distributions constructed so far in the test
    calls,      \* SpecTests: the check_kl calls of the running test method
    cmp         \* SpecTests: the operands of the last assert_allclose

stftVars == <<node, ctorArgs, last, prevNode>>
paramVars == <<shape, is_variable>>
helperVars == <<call, ret>>
testVars == <<test, dist1, dist2, serial, calls, cmp>>
vars == <<node, ctorArgs, last, prevNode, shape, is_variable, call, ret,
          test, dist1, dist2, serial, calls, cmp>>

None == [kind |-> "None"]

(***************************************************************************)
(* Bounds of the model.                                                    *)
(***************************************************************************)
\* most inputs handed to check_type_forward / forward
MaxInputs == 2
\* largest integer constructor argument of STFT
MaxArg == 1
\* a random draw takes one of the MaxGrid + 1 evenly spaced points of its range
MaxGrid == 2

(***************************************************************************)
(* STFT (chainer/functions/math/stft.py)                                   *)
(***************************************************************************)
\* numpy dtype kinds of the arrays handed to the node
DtypeKinds == {"f", "i", "b", "c"}

\* an input array of the node, as far as the node looks at it: the type check
\* reads its dtype kind, and forward fails before it reads anything
InputArrays == [kind : {"ndarray"}, dtype : DtypeKinds]
InputTuples == UNION {[1..n -> InputArrays] : n \in 0..MaxInputs}

\* fft_size 0 and window "None" stand for the default None
CtorArgSets ==
    [frame_length : 1..MaxArg, hop : 1..MaxArg, fft_size : {0} \cup 1..MaxArg,
     return_onesided : BOOLEAN, window : {"None", "hann"}, pad_end : 0..1]

\* STFT.__init__: the body is "pass": no attribute is set on the node
STFT_init(args) == [kind |-> "STFT", attrs |-> {}]

\* STFT.label
label_class_name(self) == "STFT"
label(self) == "stft"

\* type_check.expect(cond): raises InvalidType unless cond holds
expect(cond) == IF cond THEN "ok" ELSE "InvalidType"

\* in_types of a tuple of inputs: one type per input (its dtype kind)
in_types_of(inputs) == [i \in 1..Len(inputs) |-> inputs[i].dtype]

\* STFT.check_type_forward: the two expectations in order; the second is
\* evaluated only when the first did not raise
check_type_forward_no_kind(in_types) == expect(Len(in_types) = 1)
check_type_forward(in_types) ==
    IF expect(Len(in_types) = 1) = "InvalidType" THEN "InvalidType"
    ELSE expect(in_types[1] = "f")

\* names bound where the body of STFT.forward runs: its parameters and the
\* module's globals (no builtin is called x)
forward_locals == {"self", "inputs"}
module_globals ==
    {"math", "numpy", "cuda", "function_node", "utils", "type_check", "STFT"}
name_bound(name) == name \in forward_locals \cup module_globals

\* STFT.forward: the single statement reads the name x, then the body ends
\* without a return statement (the call yields None)
forward(self, inputs) ==
    IF ~name_bound("x") THEN [outcome |-> "NameError", value |-> None]
    ELSE [outcome |-> "returned", value |-> None]

NoOp == [op |-> "none", inputs |-> <<>>, outcome |-> "none", value |-> None,
         forwardRan |-> FALSE]

\* STFT(frame_length, hop, ...)
New(args) ==
    /\ node.kind = "none"
    /\ node' = STFT_init(args)
    /\ ctorArgs' = args
    /\ prevNode' = node
    /\ last' = [NoOp EXCEPT !.op = "init", !.outcome = "returned"]
    /\ UNCHANGED <<paramVars, helperVars, testVars>>

\* reading node.label
ReadLabel ==
    /\ node.kind = "STFT"
    /\ prevNode' = node
    /\ last' = [NoOp EXCEPT !.op = "label", !.outcome = "returned",
                            !.value = [kind |-> "str", s |-> label(node)]]
    /\ UNCHANGED <<node, ctorArgs, paramVars, helperVars, testVars>>

\* node.check_type_forward(in_types)
CheckTypeForward(inputs) ==
    /\ node.kind = "STFT"
    /\ prevNode' = node
    /\ last' = [NoOp EXCEPT !.op = "check_type_forward", !.inputs = inputs,
                            !.outcome = check_type_forward(in_types_of(inputs))]
    /\ UNCHANGED <<node, ctorArgs, paramVars, helperVars, testVars>>

\* node.forward(inputs)
Forward(inputs) ==
    /\ node.kind = "STFT"
    /\ prevNode' = node
    /\ LET r == forward(node, inputs) IN
       last' = [NoOp EXCEPT !.op = "forward", !.inputs = inputs,
                            !.outcome = r.outcome, !.value = r.value,
                            !.forwardRan = TRUE]
    /\ UNCHANGED <<node, ctorArgs, paramVars, helperVars, testVars>>

\* FunctionNode.apply(inputs): the type check, then forward
Apply(inputs) ==
    /\ node.kind = "STFT"
    /\ prevNode' = node
    /\ LET c == check_type_forward(in_types_of(inputs))
           r == forward(node, inputs) IN
       last' = IF c = "InvalidType"
               THEN [NoOp EXCEPT !.op = "apply", !.inputs = inputs,
                                 !.outcome = c]
               ELSE [NoOp EXCEPT !.op = "apply", !.inputs = inputs,
                                 !.outcome = r.outcome, !.value = r.value,
                                 !.forwardRan = TRUE]
    /\ UNCHANGED <<node, ctorArgs, paramVars, helperVars, testVars>>

NextSTFT ==
    \/ \E args \in CtorArgSets : New(args)
    \/ ReadLabel
    \/ \E inputs \in InputTuples : CheckTypeForward(inputs)
    \/ \E inputs \in InputTuples : Forward(inputs)
    \/ \E inputs \in InputTuples : Apply(inputs)

(***************************************************************************)
(* TestKLDivergence: arrays, parameters and distributions                  *)
(*                                                                         *)
(* An array is [kind, dev, shape, data, xform]: data is the flat sequence  *)
(* of its elements, each an integer numerator over Den, as drawn; xform    *)
(* names what was applied to the drawn values afterwards ("id", "exp",     *)
(* "softmax", "cholesky"), which the model does not evaluate.              *)
(***************************************************************************)
\* @testing.parameterize: the shapes and is_variable values
Shapes == {<<3, 2>>, <<1>>}
Den == 2 * MaxGrid
Real(x) == x * Den
Half == MaxGrid

RECURSIVE Prod(_)
Prod(s) == IF s = <<>> THEN 1 ELSE Head(s) * Prod(Tail(s))

\* self of a TestKLDivergence instance
Self == [shape |-> shape, is_variable |-> is_variable]

\* the outcomes of drawing n random numbers, for each element the grid point
\* it falls on: every element at the low end of the range, every element at
\* the high end, or the elements spread over the grid
Patterns(n) ==
    {[i \in 1..n |-> c] : c \in {0, MaxGrid}}
        \cup {[i \in 1..n |-> i % (MaxGrid + 1)]}

Broadcast(x, n) == [i \in 1..n |-> x]
AddScalar(a, x) == [i \in 1..Len(a) |-> a[i] + x]

ndarray(shp, data, xform) ==
    [kind |-> "ndarray", dev |-> "cpu", shape |-> shp, data |-> data,
     xform |-> xform]

\* numpy.random.uniform(lo, hi, shp).astype(float32), lo and hi elementwise
uniform(lo, hi, shp, k) ==
    ndarray(shp, [i \in 1..Prod(shp) |->
                    lo[i] + (k[i] * (hi[i] - lo[i])) \div MaxGrid], "id")

\* numpy.random.normal(size=shp): unbounded; the grid covers [-1, 1]
normal(shp, k) ==
    ndarray(shp, [i \in 1..Prod(shp) |-> (2 * k[i] - MaxGrid) * 2], "id")

\* cuda.to_gpu(v)
to_gpu(v) == [v EXCEPT !.dev = "gpu"]
\* cuda.ndarray.get()
get(a) == [a EXCEPT !.dev = "cpu"]
\* chainer.Variable(v)
Variable(v) == [kind |-> "Variable", data |-> v]

\* TestKLDivergence.encode_params
encode_params_no_gpu(self, params, is_gpu) ==
    IF self.is_variable
    THEN [k \in DOMAIN params |-> Variable(params[k])]
    ELSE params
encode_params(self, params, is_gpu) ==
    LET p1 == IF is_gpu
              THEN [k \in DOMAIN params |-> to_gpu(params[k])]
              ELSE params
    IN IF self.is_variable
       THEN [k \in DOMAIN p1 |-> Variable(p1[k])]
       ELSE p1

\* distributions.<Family>(**params): the distribution holds its keyword
\* arguments
Distribution(family, params) ==
    [kind |-> "dist", family |-> family, params |-> params]

n_of(self) == Prod(self.shape)

\* TestKLDivergence.make_bernoulli_dist
make_bernoulli_dist(self, is_gpu, k1) ==
    LET p == uniform(Broadcast(Real(0), n_of(self)),
                     Broadcast(Real(1), n_of(self)), self.shape, k1)
    IN Distribution("Bernoulli", encode_params(self, [p |-> p], is_gpu))

\* TestKLDivergence.make_beta_dist
make_beta_dist(self, is_gpu, k1, k2) ==
    LET a == uniform(Broadcast(Half, n_of(self)),
                     Broadcast(Real(10), n_of(self)), self.shape, k1)
        b == uniform(Broadcast(Half, n_of(self)),
                     Broadcast(Real(10), n_of(self)), self.shape, k2)
    IN Distribution("Beta", encode_params(self, [a |-> a, b |-> b], is_gpu))

\* TestKLDivergence.make_categorical_dist
make_categorical_dist(self, is_gpu, k1) ==
    LET p == [normal(self.shape \o <<3>>, k1) EXCEPT !.xform = "softmax"]
    IN Distribution("Categorical", encode_params(self, [p |-> p], is_gpu))

\* loc and exp(uniform(-1, 1)) as drawn by the laplace, log-normal and normal
\* helpers
unit_uniform(self, k) ==
    uniform(Broadcast(Real(-1), n_of(self)), Broadcast(Real(1), n_of(self)),
            self.shape, k)
exp_uniform(self, k) == [unit_uniform(self, k) EXCEPT !.xform = "exp"]

\* TestKLDivergence.make_laplace_dist
make_laplace_dist(self, is_gpu, k1, k2) ==
    Distribution("Laplace",
        encode_params(self, [loc |-> unit_uniform(self, k1),
                             scale |-> exp_uniform(self, k2)], is_gpu))

\* TestKLDivergence.make_log_normal_dist
make_log_normal_dist(self, is_gpu, k1, k2) ==
    Distribution("LogNormal",
        encode_params(self, [mu |-> unit_uniform(self, k1),
                             sigma |-> exp_uniform(self, k2)], is_gpu))

\* TestKLDivergence.make_normal_dist
make_normal_dist_both(self, is_gpu, use_log_scale, k1, k2) ==
    Distribution("Normal",
        encode_params(self, [loc |-> unit_uniform(self, k1),
                             scale |-> exp_uniform(self, k2),
                             log_scale |-> unit_uniform(self, k2)], is_gpu))
make_normal_dist(self, is_gpu, use_log_scale, k1, k2) ==
    LET loc == unit_uniform(self, k1)
    IN IF use_log_scale
       THEN Distribution("Normal",
                encode_params(self, [loc |-> loc,
                    log_scale |-> unit_uniform(self, k2)], is_gpu))
       ELSE Distribution("Normal",
                encode_params(self, [loc |-> loc,
                    scale |-> exp_uniform(self, k2)], is_gpu))

\* TestKLDivergence.make_multivariatenormal_dist
make_multivariatenormal_dist(self, is_gpu, k1, k2) ==
    LET loc == uniform(Broadcast(Real(-1), n_of(self) * 3),
                       Broadcast(Real(1), n_of(self) * 3),
                       self.shape \o <<3>>, k1)
        cov == normal(<<n_of(self), 3, 3>>, k2)
        scale_tril == [cov EXCEPT !.shape = self.shape \o <<3, 3>>,
                                  !.xform = "cholesky"]
    IN Distribution("MultivariateNormal",
           encode_params(self, [loc |-> loc, scale_tril |-> scale_tril],
                         is_gpu))

\* TestKLDivergence.make_uniform_dist
make_uniform_dist_regen(self, is_gpu, low, high, loc, scale, use_loc_scale, k1, k2) ==
    LET n == n_of(self) IN
    IF use_loc_scale
    THEN Distribution("Uniform", encode_params(self,
            [loc |-> uniform(Broadcast(Real(-3), n), Broadcast(Real(0), n),
                             self.shape, k1),
             scale |-> uniform(Broadcast(Real(1), n), Broadcast(Real(5), n),
                               self.shape, k2)], is_gpu))
    ELSE LET low1 == uniform(Broadcast(Real(-3), n), Broadcast(Real(0), n),
                             self.shape, k1)
         IN Distribution("Uniform", encode_params(self,
                [low |-> low1,
                 high |-> uniform(AddScalar(low1.data, Real(1)),
                                  AddScalar(low1.data, Real(6)),
                                  self.shape, k2)], is_gpu))
make_uniform_dist(self, is_gpu, low, high, loc, scale, use_loc_scale, k1, k2) ==
    LET n == n_of(self) IN
    IF use_loc_scale
    THEN LET loc1 == IF loc = None
                     THEN uniform(Broadcast(Real(-3), n),
                                  Broadcast(Real(0), n), self.shape, k1)
                     ELSE loc
             scale1 == IF scale = None
                       THEN uniform(Broadcast(Real(1), n),
                                    Broadcast(Real(5), n), self.shape, k2)
                       ELSE scale
         IN Distribution("Uniform",
                encode_params(self, [loc |-> loc1, scale |-> scale1], is_gpu))
    ELSE LET low1 == IF low = None
                     THEN uniform(Broadcast(Real(-3), n),
                                  Broadcast(Real(0), n), self.shape, k1)
                     ELSE low
             high1 == IF high = None
                      THEN uniform(AddScalar(low1.data, Real(1)),
                                   AddScalar(low1.data, Real(6)),
                                   self.shape, k2)
                      ELSE high
         IN Distribution("Uniform",
                encode_params(self, [low |-> low1, high |-> high1], is_gpu))

(***************************************************************************)
(* SpecHelpers: the helpers called directly                                *)
(***************************************************************************)
\* arrays a caller hands in: host arrays of self.shape, with values outside
\* every range the helpers draw from
CallerArrays(self) ==
    {ndarray(self.shape, Broadcast(Real(c), n_of(self)), "id") : c \in {-5, 7}}
OptionalArrays(self) == {None} \cup CallerArrays(self)

\* parameter dictionaries handed to encode_params
ParamDicts(self) ==
    {<<>>}
        \cup {[p |-> x] : x \in CallerArrays(self)}
        \cup {[loc |-> x, scale |-> y] :
                x \in CallerArrays(self), y \in CallerArrays(self)}

NoCall == [fn |-> "none"]

CallEncodeParams(params, is_gpu) ==
    /\ call.fn = "none"
    /\ call' = [fn |-> "encode_params", params |-> params, is_gpu |-> is_gpu]
    /\ ret' = encode_params(Self, params, is_gpu)
    /\ UNCHANGED <<stftVars, paramVars, testVars>>

CallMakeNormalDist(is_gpu, use_log_scale, k1, k2) ==
    /\ call.fn = "none"
    /\ call' = [fn |-> "make_normal_dist", is_gpu |-> is_gpu,
                use_log_scale |-> use_log_scale]
    /\ ret' = make_normal_dist(Self, is_gpu, use_log_scale, k1, k2)
    /\ UNCHANGED <<stftVars, paramVars, testVars>>

CallMakeUniformDist(is_gpu, low, high, loc, scale, use_loc_scale, k1, k2) ==
    /\ call.fn = "none"
    /\ call' = [fn |-> "make_uniform_dist", is_gpu |-> is_gpu, low |-> low,
                high |-> high, loc |-> loc, scale |-> scale,
                use_loc_scale |-> use_loc_scale]
    /\ ret' = make_uniform_dist(Self, is_gpu, low, high, loc, scale,
                                use_loc_scale, k1, k2)
    /\ UNCHANGED <<stftVars, paramVars, testVars>>

\* the caller drops the result and goes on to its next call
HelperReturn ==
    /\ call.fn # "none"
    /\ call' = NoCall
    /\ ret' = None
    /\ UNCHANGED <<stftVars, paramVars, testVars>>

NextHelpers ==
    \/ HelperReturn
    \/ \E params \in ParamDicts(Self), is_gpu \in BOOLEAN :
          CallEncodeParams(params, is_gpu)
    \/ \E is_gpu \in BOOLEAN, use_log_scale \in BOOLEAN,
          k1 \in Patterns(n_of(Self)), k2 \in Patterns(n_of(Self)) :
          CallMakeNormalDist(is_gpu, use_log_scale, k1, k2)
    \/ \E is_gpu \in BOOLEAN, use_loc_scale \in BOOLEAN,
          low \in OptionalArrays(Self), high \in OptionalArrays(Self),
          loc \in OptionalArrays(Self), scale \in OptionalArrays(Self),
          k1 \in Patterns(n_of(Self)), k2 \in Patterns(n_of(Self)) :
          CallMakeUniformDist(is_gpu, low, high, loc, scale, use_loc_scale,
                              k1, k2)

(***************************************************************************)
(* check_kl and the distributions API it calls                             *)
(***************************************************************************)
\* the array a parameter holds (Variable.data, or the array itself)
param_array(v) == IF v.kind = "Variable" THEN v.data ELSE v

\* the parameter whose shape gives a distribution's batch shape
main_key(d) ==
    CASE d.family \in {"Bernoulli", "Categorical"} -> "p"
      [] d.family = "Beta" -> "a"
      [] d.family = "LogNormal" -> "mu"
      [] d.family = "Uniform" /\ "low" \in DOMAIN d.params -> "low"
      [] OTHER -> "loc"
\* trailing axes of that parameter which are event axes, not batch axes
event_ndim(d) ==
    IF d.family \in {"Categorical", "MultivariateNormal"} THEN 1 ELSE 0
\* a Categorical sample is an index: it has no event axis
sample_event_ndim(d) == IF d.family = "MultivariateNormal" THEN 1 ELSE 0

DropLast(s, n) == SubSeq(s, 1, Len(s) - n)
TakeLast(s, n) == SubSeq(s, Len(s) - n + 1, Len(s))

dist_dev(d) == param_array(d.params[main_key(d)]).dev
batch_shape(d) == DropLast(param_array(d.params[main_key(d)]).shape,
                           event_ndim(d))
event_shape(d) == TakeLast(param_array(d.params[main_key(d)]).shape,
                           sample_event_ndim(d))

\* an array computed by the library: its elements are not modelled
computed(dev, shp, what) ==
    [kind |-> "ndarray", dev |-> dev, shape |-> shp, data |-> <<>>,
     xform |-> what]

\* chainer.kl_divergence(dist1, dist2): one value per batch element
kl_divergence(d1, d2) ==
    Variable(computed(dist_dev(d1), batch_shape(d1), "kl"))
\* dist.sample(n)
sample(d, n) ==
    Variable(computed(dist_dev(d), <<n>> \o batch_shape(d) \o event_shape(d),
                      "sample"))
\* dist.log_prob(x): one value per sample and batch element
log_prob(d, x) ==
    Variable(computed(dist_dev(d),
                      DropLast(x.data.shape, sample_event_ndim(d)),
                      "log_prob"))
\* a - b of two arrays of one shape
subtract(a, b) == computed(a.dev, a.shape, "sub")
\* numpy.nanmean(a, axis=axis), axis counted from 0
nanmean(a, axis) ==
    [a EXCEPT !.shape = SubSeq(a.shape, 1, axis)
                            \o SubSeq(a.shape, axis + 2, Len(a.shape)),
              !.xform = "nanmean"]

\* sample count of check_kl
NSamples == 300000

\* "if isinstance(a, cuda.ndarray): a = a.get()"
to_host_skipped(a) == a
to_host(a) == IF a.dev = "gpu" THEN get(a) ELSE a

\* TestKLDivergence.check_kl up to the comparison: the two operands of
\* assert_allclose, and mc_kl as it was before the reduction
check_kl(d1, d2) ==
    LET kl == to_host(kl_divergence(d1, d2).data)
        smp == sample(d1, NSamples)
        mc_kl == to_host(subtract(log_prob(d1, smp).data,
                                  log_prob(d2, smp).data))
    IN [kl |-> kl, mc_pre |-> mc_kl, mc_kl |-> nanmean(mc_kl, 0)]

\* testing.assert_allclose(kl, mc_kl, ...): the numerical agreement is not
\* modelled, so arrays of one shape may or may not agree; arrays of different
\* shapes are never reported close
allclose_outcomes(a, b) == IF a.shape = b.shape THEN BOOLEAN ELSE {FALSE}

(***************************************************************************)
(* SpecTests: the test methods                                             *)
(***************************************************************************)
\* "for use_..1 in [True, False]: for use_..2 in [True, False]:"
FlagList_reversed == <<FALSE, TRUE>>
FlagList == <<TRUE, FALSE>>

Method(name, make, gpu, loop) ==
    [name |-> name, make1 |-> make, gpu1 |-> gpu, make2 |-> make,
     gpu2 |-> gpu, gpu |-> gpu, loop |-> loop]

\* a variant of the table in which one GPU test builds dist2 on the host
TestMethods_mixed ==
    {Method("test_bernoulli_bernoulli_cpu", "bernoulli", FALSE, FALSE),
     [Method("test_bernoulli_bernoulli_gpu", "bernoulli", TRUE, FALSE)
         EXCEPT !.gpu2 = FALSE]}

\* the test methods: which helper builds dist1 and dist2, the is_gpu argument
\* each is given, whether the method is marked @attr.gpu, and whether it
\* loops over the two flags
TestMethods ==
    {Method("test_bernoulli_bernoulli_cpu", "bernoulli", FALSE, FALSE),
     Method("test_bernoulli_bernoulli_gpu", "bernoulli", TRUE, FALSE),
     Method("test_beta_beta_cpu", "beta", FALSE, FALSE),
     Method("test_beta_beta_gpu", "beta", TRUE, FALSE),
     Method("test_categorical_categorical_cpu", "categorical", FALSE, FALSE),
     Method("test_categorical_categorical_gpu", "categorical", TRUE, FALSE),
     Method("test_laplace_laplace_cpu", "laplace", FALSE, FALSE),
     Method("test_laplace_laplace_gpu", "laplace", TRUE, FALSE),
     Method("test_log_normal_log_normal_cpu", "log_normal", FALSE, FALSE),
     Method("test_log_normal_log_normal_gpu", "log_normal", TRUE, FALSE),
     Method("test_normal_normal_cpu", "normal", FALSE, TRUE),
     Method("test_normal_normal_gpu", "normal", TRUE, TRUE),
     Method("test_multivariatenormal_multivariatenormal_cpu",
            "multivariatenormal", FALSE, FALSE),
     Method("test_multivariatenormal_multivariatenormal_gpu",
            "multivariatenormal", TRUE, FALSE),
     Method("test_uniform_uniform_cpu", "uniform", FALSE, TRUE),
     Method("test_uniform_uniform_gpu", "uniform", TRUE, TRUE)}

\* number of elements of the first and second random draw of a helper
draw1_size(make, self) ==
    IF make \in {"categorical", "multivariatenormal"}
    THEN n_of(self) * 3 ELSE n_of(self)
draw2_size(make, self) ==
    CASE make = "multivariatenormal" -> n_of(self) * 9
      [] make \in {"bernoulli", "categorical"} -> 0
      [] OTHER -> n_of(self)

\* self.make_<make>_dist(is_gpu[, use_...=flag])
make_dist(make, self, is_gpu, flag, k1, k2) ==
    CASE make = "bernoulli" -> make_bernoulli_dist(self, is_gpu, k1)
      [] make = "beta" -> make_beta_dist(self, is_gpu, k1, k2)
      [] make = "categorical" -> make_categorical_dist(self, is_gpu, k1)
      [] make = "laplace" -> make_laplace_dist(self, is_gpu, k1, k2)
      [] make = "log_normal" -> make_log_normal_dist(self, is_gpu, k1, k2)
      [] make = "normal" -> make_normal_dist(self, is_gpu, flag, k1, k2)
      [] make = "multivariatenormal" ->
            make_multivariatenormal_dist(self, is_gpu, k1, k2)
      [] make = "uniform" ->
            make_uniform_dist(self, is_gpu, None, None, None, None, flag,
                              k1, k2)

Idle == [name |-> "none", pc |-> "idle"]

\* the runner enters a test method
StartTest(m) ==
    /\ test.pc = "idle"
    /\ test' = [name |-> m.name, pc |-> "make", m |-> m, i |-> 1, j |-> 1]
    /\ serial' = 0
    /\ calls' = <<>>
    /\ UNCHANGED <<dist1, dist2, cmp, stftVars, paramVars, helperVars>>

\* "dist1 = self.make_..._dist(...); dist2 = self.make_..._dist(...)"
MakeDists(k1, k2, k3, k4) ==
    /\ test.pc = "make"
    /\ dist1' = [obj |-> make_dist(test.m.make1, Self, test.m.gpu1,
                                   FlagList[test.i], k1, k2),
                 id |-> serial + 1]
    /\ dist2' = [obj |-> make_dist(test.m.make2, Self, test.m.gpu2,
                                   FlagList[test.j], k3, k4),
                 id |-> serial + 2]
    /\ serial' = serial + 2
    /\ test' = [test EXCEPT !.pc = "check"]
    /\ UNCHANGED <<calls, cmp, stftVars, paramVars, helperVars>>

\* "self.check_kl(dist1, dist2)", then the loops' next iteration or the end
\* of the method; a failed assertion ends the method at once
CheckKl(ok) ==
    /\ test.pc = "check"
    /\ LET r == check_kl(dist1.obj, dist2.obj) IN
       /\ ok \in allclose_outcomes(r.kl, r.mc_kl)
       /\ cmp' = r
    /\ calls' = Append(calls, [flags |-> <<FlagList[test.i], FlagList[test.j]>>,
                               ids |-> <<dist1.id, dist2.id>>,
                               passed |-> ok])
    /\ test' = IF ~ok THEN [test EXCEPT !.pc = "failed"]
               ELSE IF ~test.m.loop THEN [test EXCEPT !.pc = "passed"]
               ELSE IF test.j < Len(FlagList)
                    THEN [test EXCEPT !.pc = "make", !.j = test.j + 1]
               ELSE IF test.i < Len(FlagList)
                    THEN [test EXCEPT !.pc = "make", !.i = test.i + 1, !.j = 1]
               ELSE [test EXCEPT !.pc = "passed"]
    /\ UNCHANGED <<dist1, dist2, serial, stftVars, paramVars, helperVars>>

\* the method is over; the runner goes on to another one
EndTest ==
    /\ test.pc \in {"passed", "failed"}
    /\ test' = Idle
    /\ dist1' = None
    /\ dist2' = None
    /\ cmp' = None
    /\ serial' = 0
    /\ calls' = <<>>
    /\ UNCHANGED <<stftVars, paramVars, helperVars>>

NextTests ==
    \/ \E m \in TestMethods : StartTest(m)
    \/ /\ test.pc = "make"
       /\ \E k1 \in Patterns(draw1_size(test.m.make1, Self)),
             k2 \in Patterns(draw2_size(test.m.make1, Self)),
             k3 \in Patterns(draw1_size(test.m.make2, Self)),
             k4 \in Patterns(draw2_size(test.m.make2, Self)) :
             MakeDists(k1, k2, k3, k4)
    \/ \E ok \in BOOLEAN : CheckKl(ok)
    \/ EndTest

Init ==
    /\ node = [kind |-> "none"]
    /\ ctorArgs = None
    /\ last = NoOp
    /\ prevNode = [kind |-> "none"]
    /\ shape \in Shapes
    /\ is_variable \in BOOLEAN
    /\ call = NoCall
    /\ ret = None
    /\ test = Idle
    /\ dist1 = None
    /\ dist2 = None
    /\ serial = 0
    /\ calls = <<>>
    /\ cmp = None

\* the node does not read the test case's parameters: one value of each
InitSTFT == Init /\ shape = <<1>> /\ ~is_variable
SpecSTFT == InitSTFT /\ [][NextSTFT]_vars
SpecHelpers == Init /\ [][NextHelpers]_vars
SpecTests == Init /\ [][NextTests]_vars

(***************************************************************************)
(* Properties of STFT (checked under SpecSTFT)                             *)
(***************************************************************************)
OneFloatInput(inputs) == Len(inputs) = 1 /\ inputs[1].dtype = "f"

\* C2: check_type_forward accepts the inputs if and only if there is exactly
\* one input and its dtype kind is 'f'; for zero inputs, two or more inputs
\* or a single non-float input it ends with a type-check error, and an apply
\* whose type check failed has not run forward.
C2_TypeCheckAcceptsExactlyOneFloat ==
    /\ last.op = "check_type_forward" =>
          /\ last.outcome = "ok" <=> OneFloatInput(last.inputs)
          /\ last.outcome = "InvalidType" <=> ~OneFloatInput(last.inputs)
          /\ ~last.forwardRan
    /\ (last.op = "apply" /\ ~OneFloatInput(last.inputs)) =>
          last.outcome = "InvalidType" /\ ~last.forwardRan

C2_Witness ==
    /\ last.op = "apply"
    /\ Len(last.inputs) = 1
    /\ last.inputs[1].dtype = "c"
    /\ last.outcome = "InvalidType"

\* C3 (as claimed): forward, called with inputs that pass check_type_forward,
\* completes without raising and returns the outputs of the transform.
C3_ForwardReturnsOutputs ==
    (last.op = "forward" /\ OneFloatInput(last.inputs)) =>
        last.outcome = "returned" /\ last.value.kind = "outputs"

\* C4: whatever arguments the node was constructed with and whatever was
\* called on it before, reading label yields the string 'stft' and leaves the
\* node as it was.
C4_LabelIsStft ==
    last.op = "label" =>
        /\ last.outcome = "returned"
        /\ last.value = [kind |-> "str", s |-> "stft"]
        /\ node = prevNode

C4_Witness ==
    /\ last.op = "label"
    /\ ctorArgs.window = "hann"
    /\ ~ctorArgs.return_onesided

(***************************************************************************)
(* Properties of the helpers (checked under SpecHelpers)                   *)
(***************************************************************************)
\* C5: encode_params returns a mapping with exactly the keys of params; every
\* value is a Variable when is_variable is True and a raw array when it is
\* False; with is_gpu True the array (the one the Variable wraps, if any) is
\* the GPU copy of the given one; with is_gpu False and is_variable False the
\* mapping is returned with its values unchanged.
C5_EncodeParams ==
    call.fn = "encode_params" =>
        /\ DOMAIN ret = DOMAIN call.params
        /\ \A k \in DOMAIN call.params :
              LET given == call.params[k]
                  a == IF is_variable THEN ret[k].data ELSE ret[k]
              IN /\ ret[k].kind = IF is_variable THEN "Variable" ELSE "ndarray"
                 /\ a.kind = "ndarray"
                 /\ a.dev = IF call.is_gpu THEN "gpu" ELSE given.dev
                 /\ a.shape = given.shape
                 /\ a.data = given.data
                 /\ a.xform = given.xform
        /\ (~call.is_gpu /\ ~is_variable) => ret = call.params

C5_Witness ==
    /\ call.fn = "encode_params"
    /\ call.is_gpu
    /\ is_variable
    /\ DOMAIN call.params = {"loc", "scale"}
    /\ ret["loc"].kind = "Variable"
    /\ ret["loc"].data.dev = "gpu"

\* C8: make_normal_dist hands Normal the keys {loc, log_scale} when
\* use_log_scale is True and {loc, scale} otherwise; make_uniform_dist hands
\* Uniform {loc, scale} when use_loc_scale is True and {low, high} otherwise,
\* also when the caller passes values for the other parametrization.
C8_OneParametrization ==
    /\ call.fn = "make_normal_dist" =>
          /\ ret.family = "Normal"
          /\ DOMAIN ret.params = IF call.use_log_scale
                                 THEN {"loc", "log_scale"}
                                 ELSE {"loc", "scale"}
    /\ call.fn = "make_uniform_dist" =>
          /\ ret.family = "Uniform"
          /\ DOMAIN ret.params = IF call.use_loc_scale
                                 THEN {"loc", "scale"}
                                 ELSE {"low", "high"}

C8_Witness ==
    /\ call.fn = "make_uniform_dist"
    /\ call.use_loc_scale
    /\ call.low # None
    /\ call.high # None
    /\ call.loc = None
    /\ DOMAIN ret.params = {"loc", "scale"}

\* the element values of parameter key of the distribution returned
Elements(key) == param_array(ret.params[key]).data
Indices == 1..n_of(Self)

\* the bounds make_uniform_dist generates itself are non-degenerate
GeneratedBoundsInRange ==
    /\ (~call.use_loc_scale /\ call.low = None /\ call.high = None) =>
          \A i \in Indices :
             /\ Real(-3) <= Elements("low")[i]
             /\ Elements("low")[i] <= Real(0)
             /\ Elements("low")[i] + Real(1) <= Elements("high")[i]
             /\ Elements("high")[i] <= Elements("low")[i] + Real(6)
             /\ Elements("high")[i] > Elements("low")[i]
    /\ (call.use_loc_scale /\ call.scale = None) =>
          \A i \in Indices :
             /\ Real(1) <= Elements("scale")[i]
             /\ Elements("scale")[i] <= Real(5)
             /\ Elements("scale")[i] > 0

\* the distribution received the caller's value for key, element for element
PassedUnchanged(key) ==
    /\ key \in DOMAIN ret.params
    /\ param_array(ret.params[key]).shape = call[key].shape
    /\ Elements(key) = call[key].data
    /\ param_array(ret.params[key]).xform = call[key].xform

SelectedKeys == IF call.use_loc_scale THEN {"loc", "scale"} ELSE {"low", "high"}

\* C9 (as claimed): the generated bounds are non-degenerate, and a low, high,
\* loc or scale supplied by the caller is passed to the distribution
\* unchanged.
C9_SuppliedAlwaysPassed ==
    call.fn = "make_uniform_dist" =>
        /\ GeneratedBoundsInRange
        /\ \A key \in {"low", "high", "loc", "scale"} :
              call[key] # None => PassedUnchanged(key)

\* C9 (amended): the generated bounds are non-degenerate; a low or high
\* supplied with use_loc_scale False, or a loc or scale supplied with
\* use_loc_scale True, is passed to the distribution unchanged and is not
\* regenerated; a value supplied for the parametrization that is not selected
\* is not passed to the distribution.
C9_UniformBounds ==
    call.fn = "make_uniform_dist" =>
        /\ GeneratedBoundsInRange
        /\ \A key \in SelectedKeys :
              call[key] # None => PassedUnchanged(key)
        /\ \A key \in {"low", "high", "loc", "scale"} \ SelectedKeys :
              key \notin DOMAIN ret.params

C9_Witness ==
    /\ call.fn = "make_uniform_dist"
    /\ ~call.use_loc_scale
    /\ call.low = None
    /\ call.high = None
    /\ call.scale # None
    /\ shape = <<3, 2>>
    /\ \E i \in Indices : Elements("high")[i] = Elements("low")[i] + Real(6)
    /\ \E i \in Indices : Elements("low")[i] = Real(0)

(***************************************************************************)
(* Properties of the test methods (checked under SpecTests)                *)
(***************************************************************************)
LoopTests ==
    {"test_normal_normal_cpu", "test_normal_normal_gpu",
     "test_uniform_uniform_cpu", "test_uniform_uniform_gpu"}

ExpectedOrder ==
    <<<<TRUE, TRUE>>, <<TRUE, FALSE>>, <<FALSE, TRUE>>, <<FALSE, FALSE>>>>

\* the keys the flag's parametrization gives the distribution
FlagKeys(make, flag) ==
    IF make = "normal"
    THEN (IF flag THEN {"loc", "log_scale"} ELSE {"loc", "scale"})
    ELSE (IF flag THEN {"loc", "scale"} ELSE {"low", "high"})

\* C6: the normal and uniform test methods call check_kl on the flag
\* combinations (True, True), (True, False), (False, True), (False, False) in
\* this order, four times when the method passes; each call is given two
\* distributions constructed since the previous call, parametrized as the
\* combination says; a combination is reached only when every earlier check
\* passed.
C6_FourCombinationsInOrder ==
    test.name \in LoopTests =>
        /\ Len(calls) <= Len(ExpectedOrder)
        /\ \A n \in 1..Len(calls) :
              /\ calls[n].flags = ExpectedOrder[n]
              /\ calls[n].ids = <<2 * n - 1, 2 * n>>
              /\ n < Len(calls) => calls[n].passed
        /\ test.pc = "passed" =>
              Len(calls) = Len(ExpectedOrder) /\ calls[Len(calls)].passed
        /\ test.pc = "check" =>
              /\ Len(calls) < Len(ExpectedOrder)
              /\ DOMAIN dist1.obj.params =
                    FlagKeys(test.m.make1, ExpectedOrder[Len(calls) + 1][1])
              /\ DOMAIN dist2.obj.params =
                    FlagKeys(test.m.make2, ExpectedOrder[Len(calls) + 1][2])
              /\ dist1.id = 2 * Len(calls) + 1
              /\ dist2.id = 2 * Len(calls) + 2

C6_Witness ==
    /\ test.name = "test_uniform_uniform_gpu"
    /\ test.pc = "passed"
    /\ Len(calls) = 4
    /\ calls[4].flags = <<FALSE, FALSE>>

\* C7: at the comparison, the Monte Carlo estimate is the mean over axis 0
\* (of length 300000) only of the log-probability differences, so its shape
\* is the batch shape, equal to the shape of the analytic kl, and both
\* operands are host arrays whatever the device of the distributions.
C7_OperandsOnHostSameShape ==
    cmp # None =>
        /\ cmp.kl.dev = "cpu"
        /\ cmp.mc_kl.dev = "cpu"
        /\ Head(cmp.mc_pre.shape) = NSamples
        /\ cmp.mc_kl.shape = Tail(cmp.mc_pre.shape)
        /\ cmp.mc_kl.shape = shape
        /\ cmp.mc_kl.shape = cmp.kl.shape

C7_Witness ==
    /\ cmp # None
    /\ test.name = "test_multivariatenormal_multivariatenormal_gpu"
    /\ dist_dev(dist1.obj) = "gpu"
    /\ shape = <<3, 2>>
    /\ cmp.mc_kl.shape = <<3, 2>>
    /\ cmp.kl.dev = "cpu"

\* the devices of all parameters of a distribution
ParamDevs(d) == {param_array(d.params[k]).dev : k \in DOMAIN d.params}

\* C10: whenever a test method calls check_kl, dist1 and dist2 are of the
\* same family and on the same device, the host in the *_cpu methods and the
\* GPU in the *_gpu methods.
C10_SameFamilySameDevice ==
    test.pc = "check" =>
        /\ dist1.obj.family = dist2.obj.family
        /\ ParamDevs(dist1.obj) = ParamDevs(dist2.obj)
        /\ ParamDevs(dist1.obj) = {IF test.m.gpu THEN "gpu" ELSE "cpu"}

C10_Witness ==
    /\ test.pc = "check"
    /\ test.name = "test_categorical_categorical_gpu"
    /\ dist1.obj.family = "Categorical"
    /\ ParamDevs(dist2.obj) = {"gpu"}

====
